---- MODULE Spec2Model ----
(***************************************************************************)
(* Mass-spring cantilever of src/mass-spring-explicit.py.                  *)
(*                                                                         *)
(* Arithmetic.  The program computes in ti.f32.  The model computes on an  *)
(* integer lattice: a length is a whole number of quarter cells (dx = 4),  *)
(* a time is a whole number of integration steps (dh = 1), a division      *)
(* rounds toward zero as a float division rounds to the nearest float, and *)
(* 0/0 is NaN, which every later operation propagates and every            *)
(* comparison answers with false, as IEEE-754 does.  The numeric constants *)
(* (init_x, init_y, g, the stiffness, the damping factor) are rescaled to  *)
(* that lattice; the structure of every formula is the program's.          *)
(*                                                                         *)
(* Size.  The grid is the 2 x 2 one the source keeps commented out beside   *)
(* its 20 x 4, and a frame runs 2 substeps where the source runs 100.       *)
(*                                                                         *)
(* Indexing.  Fields are functions on 0..n-1 as in the program; a vector   *)
(* is a tuple, so the program's component [0] is the tuple's [1].          *)
(***************************************************************************)
EXTENDS Integers, Sequences, FiniteSets, TLC

VARIABLES
    mesh,            \* meshing(): its loop position and the fields it fills
    paused,          \* the main script's global `paused`
    damping_toggle,  \* damping_toggle[None]
    curser,          \* curser[None]
    picking,         \* picking[None]
    YoungsModulus,   \* YoungsModulus[None]
    x, v, grad,      \* the node fields
    spring_length,   \* the edge field of rest lengths
    pc,              \* position of the main loop
    left,            \* iterations left of the running `for _ in range(substepping)`
    nev,             \* key events handled so far
    frame,           \* frames completed
    last,            \* history: the operation that ran last
    hist,            \* history: what the last update() did, pass by pass
    tally,           \* history: per frame, what ran (substeps, 'p', 'r', update's view)
    snap             \* history: x, v and the stiffness as they were when the frame began

vars == <<mesh, paused, damping_toggle, curser, picking, YoungsModulus, x, v,
          grad, spring_length, pc, left, nev, frame, last, hist, tally, snap>>

simvars == <<paused, damping_toggle, curser, picking, YoungsModulus, x, v,
             grad, spring_length, pc, left, nev, frame, last, hist, tally, snap>>

-----------------------------------------------------------------------------
(* Bounds of the model *)

MaxN_x == 4         \* meshing is checked for 2 <= N_x <= MaxN_x
MaxN_y == 4         \* meshing is checked for 2 <= N_y <= MaxN_y
MaxFrames == 2      \* frames of the main loop that are explored
MaxEvents == 2      \* key events delivered over those frames
MaxSpeed == 5       \* a substep is explored while every velocity component stays within it

-----------------------------------------------------------------------------
(* Program constants *)

integration == 2
init_x == 2
init_y == 6
N_x == 2
N_y == 2
N == N_x * N_y
dx == 4
curser_radius == dx \div 2
m == 1
g == 1
dh == 1
substepping == 2
Youngs0 == 10
DampNum == 1
DampDen == 2

-----------------------------------------------------------------------------
(* f32 arithmetic on the lattice *)

NaN == 0 - 1000000

IsNaN(a) == a = NaN

FAdd(a, b) == IF IsNaN(a) \/ IsNaN(b) THEN NaN ELSE a + b

FSub(a, b) == IF IsNaN(a) \/ IsNaN(b) THEN NaN ELSE a - b

FMul(a, b) == IF IsNaN(a) \/ IsNaN(b) THEN NaN ELSE a * b

Abs(a) == IF a < 0 THEN 0 - a ELSE a

Sign(a) == IF a < 0 THEN 0 - 1 ELSE 1

\* a/b: rounds toward zero; 0/0 and anything/0 on this lattice has no finite value
FDiv(a, b) ==
    IF IsNaN(a) \/ IsNaN(b) \/ b = 0 THEN NaN
    ELSE Sign(a) * Sign(b) * (Abs(a) \div Abs(b))

FLt(a, b) == ~IsNaN(a) /\ ~IsNaN(b) /\ a < b

RECURSIVE SqrtFrom(_, _)
SqrtFrom(n, r) == IF (r + 1) * (r + 1) > n THEN r ELSE SqrtFrom(n, r + 1)

\* the square root, rounded down to the lattice
ISqrt(n) == SqrtFrom(n, 0)

VAdd(a, b) == <<FAdd(a[1], b[1]), FAdd(a[2], b[2])>>

VSub(a, b) == <<FSub(a[1], b[1]), FSub(a[2], b[2])>>

VScale(s, a) == <<FMul(s, a[1]), FMul(s, a[2])>>

VDiv(a, s) == <<FDiv(a[1], s), FDiv(a[2], s)>>

VNeg(a) == <<FSub(0, a[1]), FSub(0, a[2])>>

\* r.norm()
Norm(r) ==
    IF IsNaN(r[1]) \/ IsNaN(r[2]) THEN NaN
    ELSE ISqrt(r[1] * r[1] + r[2] * r[2])

Zero2 == <<0, 0>>

-----------------------------------------------------------------------------
(* Topology *)

ij_2_index(ny, i, j) == i * ny + j

N_edgesOf(nx, ny) == (nx - 1) * ny + nx * (ny - 1) + (nx - 1) * (ny - 1)

N_trianglesOf(nx, ny) == 2 * (nx - 1) * (ny - 1)

N_edges == N_edgesOf(N_x, N_y)

N_triangles == N_trianglesOf(N_x, N_y)

\* The fields as ti.field allocates them (zero-filled), before meshing() runs.
MeshStart(nx, ny) ==
    [nx |-> nx, ny |-> ny, pc |-> "triangles", i |-> 0, j |-> 0, eid_base |-> 0,
     triangles |-> [t \in 0..(N_trianglesOf(nx, ny) - 1) |-> <<0, 0, 0>>],
     edges |-> [e \in 0..(N_edgesOf(nx, ny) - 1) |-> <<0, 0>>],
     twrites |-> [t \in 0..(N_trianglesOf(nx, ny) - 1) |-> 0],
     ewrites |-> [e \in 0..(N_edgesOf(nx, ny) - 1) |-> 0],
     oob |-> FALSE]

\* triangles[tid] = val, counted; a tid outside the field is recorded
WriteTriangle(ms, tid, val) ==
    IF tid \in DOMAIN ms.triangles
    THEN [ms EXCEPT !.triangles[tid] = val, !.twrites[tid] = @ + 1]
    ELSE [ms EXCEPT !.oob = TRUE]

\* edges[eid] = val, counted; an eid outside the field is recorded
WriteEdge(ms, eid, val) ==
    IF eid \in DOMAIN ms.edges
    THEN [ms EXCEPT !.edges[eid] = val, !.ewrites[eid] = @ + 1]
    ELSE [ms EXCEPT !.oob = TRUE]

\* The loop header `for i in range(ni): for j in range(nj)`: the next (i, j),
\* or the statement after the loop when the range is exhausted.
Advance(ms, ni, nj, after, base) ==
    IF ms.j + 1 < nj THEN [ms EXCEPT !.j = @ + 1]
    ELSE IF ms.i + 1 < ni THEN [ms EXCEPT !.i = @ + 1, !.j = 0]
    ELSE [ms EXCEPT !.i = 0, !.j = 0, !.pc = after, !.eid_base = base]

\* One iteration of `for i,j in ti.ndrange(N_x - 1, N_y - 1)`
TriangleIteration(ms) ==
    LET ny == ms.ny
        i == ms.i
        j == ms.j
        tid0 == (i * (ny - 1) + j) * 2
        tid1 == (i * (ny - 1) + j) * 2 + 1
        a == WriteTriangle(ms, tid0,
                 <<ij_2_index(ny, i, j), ij_2_index(ny, i + 1, j),
                   ij_2_index(ny, i, j + 1)>>)
        b == WriteTriangle(a, tid1,
                 <<ij_2_index(ny, i, j + 1), ij_2_index(ny, i + 1, j + 1),
                   ij_2_index(ny, i + 1, j)>>)
    IN Advance(b, ms.nx - 1, ny - 1, "horizontal", 0)

\* mutant: the horizontal loop strides by N_y - 1, as the other two loops do
HorizontalIteration_stride(ms) ==
    LET ny == ms.ny
        eid == ms.eid_base + ms.i * (ny - 1) + ms.j
        w == WriteEdge(ms, eid,
                 <<ij_2_index(ny, ms.i, ms.j), ij_2_index(ny, ms.i + 1, ms.j)>>)
    IN Advance(w, ms.nx - 1, ny, "vertical", ms.eid_base + (ms.nx - 1) * ny)

\* One iteration of the horizontal-edge loop
HorizontalIteration(ms) ==
    LET ny == ms.ny
        eid == ms.eid_base + ms.i * ny + ms.j
        w == WriteEdge(ms, eid,
                 <<ij_2_index(ny, ms.i, ms.j), ij_2_index(ny, ms.i + 1, ms.j)>>)
    IN Advance(w, ms.nx - 1, ny, "vertical", ms.eid_base + (ms.nx - 1) * ny)

\* One iteration of the vertical-edge loop
VerticalIteration(ms) ==
    LET ny == ms.ny
        eid == ms.eid_base + ms.i * (ny - 1) + ms.j
        w == WriteEdge(ms, eid,
                 <<ij_2_index(ny, ms.i, ms.j), ij_2_index(ny, ms.i, ms.j + 1)>>)
    IN Advance(w, ms.nx, ny - 1, "diagonal", ms.eid_base + ms.nx * (ny - 1))

\* One iteration of the diagonal-edge loop
DiagonalIteration(ms) ==
    LET ny == ms.ny
        eid == ms.eid_base + ms.i * (ny - 1) + ms.j
        w == WriteEdge(ms, eid,
                 <<ij_2_index(ny, ms.i + 1, ms.j), ij_2_index(ny, ms.i, ms.j + 1)>>)
    IN Advance(w, ms.nx - 1, ny - 1, "done", ms.eid_base)

MeshIteration(ms) ==
    CASE ms.pc = "triangles" -> TriangleIteration(ms)
      [] ms.pc = "horizontal" -> HorizontalIteration(ms)
      [] ms.pc = "vertical" -> VerticalIteration(ms)
      [] ms.pc = "diagonal" -> DiagonalIteration(ms)
      [] OTHER -> ms

RECURSIVE RunMesh(_)
RunMesh(ms) == IF ms.pc = "done" THEN ms ELSE RunMesh(MeshIteration(ms))

\* meshing(), run to completion on the fresh fields
meshing(nx, ny) == RunMesh(MeshStart(nx, ny))

-----------------------------------------------------------------------------
(* Initialisation *)

Nodes == 0..(N - 1)

GridPos(i, j) == <<init_x + i * dx, init_y + j * dx>>

\* the (i, j) of ti.ndrange(N_x, N_y) whose ij_2_index is n
GridOf(n) ==
    CHOOSE p \in (0..(N_x - 1)) \X (0..(N_y - 1)) : ij_2_index(N_y, p[1], p[2]) = n

\* initialize(): the stiffness and the node fields it writes.  Its assignment
\* `paused = True` binds a name local to the kernel and is no part of the result.
initialize ==
    [YoungsModulus |-> Youngs0,
     x |-> [n \in Nodes |-> GridPos(GridOf(n)[1], GridOf(n)[2])],
     v |-> [n \in Nodes |-> Zero2]]

\* initialize_springs(): the rest length of every edge, from positions xs
initialize_springs(edges, xs) ==
    [e \in DOMAIN edges |-> Norm(VSub(xs[edges[e][1]], xs[edges[e][2]]))]

-----------------------------------------------------------------------------
(* Core *)

\* mutant: the rest length is left out of the elongation
EdgeGradient_noRestLength(edges, xs, sl, Y, e) ==
    LET r == VSub(xs[edges[e][1]], xs[edges[e][2]])
        l == Norm(r)
        l0 == sl[e]
        k == FDiv(Y, l0)
    IN VDiv(VScale(FMul(k, l), r), l)

\* the contribution of edge e: k*(l-l0)*r/l
EdgeGradient(edges, xs, sl, Y, e) ==
    LET r == VSub(xs[edges[e][1]], xs[edges[e][2]])
        l == Norm(r)
        l0 == sl[e]
        k == FDiv(Y, l0)
    IN VDiv(VScale(FMul(k, FSub(l, l0)), r), l)

RECURSIVE AccumulateEdges(_, _, _, _, _, _)
AccumulateEdges(gr, edges, xs, sl, Y, e) ==
    IF e \notin DOMAIN edges THEN gr
    ELSE LET a == edges[e][1]
             b == edges[e][2]
             gradient == EdgeGradient(edges, xs, sl, Y, e)
             ga == [gr EXCEPT ![a] = VAdd(@, gradient)]
             gb == [ga EXCEPT ![b] = VAdd(@, VNeg(gradient))]
         IN AccumulateEdges(gb, edges, xs, sl, Y, e + 1)

\* compute_gradient(): clear, then accumulate every edge
compute_gradient(edges, xs, sl, Y) ==
    AccumulateEdges([n \in DOMAIN xs |-> Zero2], edges, xs, sl, Y, 0)

\* update(), first loop: time integration with gravity gp and step dhp
IntegratePass(s, gr, gp, dhp) ==
    IF integration = 1
    THEN [x |-> [n \in DOMAIN s.x |-> VAdd(s.x[n], VScale(dhp, s.v[n]))],
          v |-> [n \in DOMAIN s.x |->
                   VAdd(s.v[n], VScale(dhp, VSub(VDiv(VNeg(gr[n]), m), <<0, gp>>)))]]
    ELSE IF integration = 2
    THEN LET nv == [n \in DOMAIN s.x |->
                      VAdd(s.v[n], VScale(dhp, VSub(VDiv(VNeg(gr[n]), m), <<0, gp>>)))]
         IN [x |-> [n \in DOMAIN s.x |-> VAdd(s.x[n], VScale(dhp, nv[n]))],
             v |-> nv]
    ELSE s

\* update(), second loop: v[i] *= exp(-dh*5) when damping is on
DampPass(s, damping) ==
    IF damping # 0
    THEN [s EXCEPT !.v = [n \in DOMAIN s.v |-> VDiv(VScale(DampNum, s.v[n]), DampDen)]]
    ELSE s

\* the nodes the pick pass snaps: within curser_radius of the cursor
Near(s, pick, cur) ==
    IF pick # 0
    THEN {n \in DOMAIN s.x : FLt(Norm(VSub(s.x[n], cur)), curser_radius)}
    ELSE {}

\* the pick pass, given the nodes it snaps
Snap(s, near, cur) ==
    [x |-> [n \in DOMAIN s.x |-> IF n \in near THEN cur ELSE s.x[n]],
     v |-> [n \in DOMAIN s.x |-> IF n \in near THEN Zero2 ELSE s.v[n]]]

\* mutant: the pick pass moves the node and keeps its velocity
PickPass_keepsVelocity(s, pick, cur) ==
    [x |-> [n \in DOMAIN s.x |-> IF n \in Near(s, pick, cur) THEN cur ELSE s.x[n]],
     v |-> s.v]

\* update(), third loop: the pick constraint
PickPass(s, pick, cur) == Snap(s, Near(s, pick, cur), cur)

\* the nodes of column 0
Wall == {ij_2_index(N_y, 0, j) : j \in 0..(N_y - 1)}

\* the j of a column-0 node
WallRow(n) == CHOOSE j \in 0..(N_y - 1) : ij_2_index(N_y, 0, j) = n

\* update(), fourth loop: rest pose attached to the wall
WallPass(s) ==
    [x |-> [n \in DOMAIN s.x |->
              IF n \in Wall THEN <<init_x, init_y + WallRow(n) * dx>> ELSE s.x[n]],
     v |-> [n \in DOMAIN s.x |-> IF n \in Wall THEN Zero2 ELSE s.v[n]]]

\* the nodes the last loop clamps
Left(s) == {n \in DOMAIN s.x : FLt(s.x[n][1], init_x)}

\* the clamp, given the nodes it catches
Clamp(s, lft) ==
    [x |-> [n \in DOMAIN s.x |-> IF n \in lft THEN <<init_x, s.x[n][2]>> ELSE s.x[n]],
     v |-> [n \in DOMAIN s.x |-> IF n \in lft THEN <<0, s.v[n][2]>> ELSE s.v[n]]]

\* mutant: the clamp moves the node and keeps its x-velocity
ClampPass_keepsVelocity(s) ==
    [x |-> [n \in DOMAIN s.x |->
              IF n \in Left(s) THEN <<init_x, s.x[n][2]>> ELSE s.x[n]],
     v |-> s.v]

\* update(), fifth loop: nothing left of the wall line
ClampPass(s) == Clamp(s, Left(s))

\* mutant: the wall loop runs before the pick loop
BeforeClamp_pickAfterWall(s, gr, damping, pick, cur, gp, dhp) ==
    PickPass(WallPass(DampPass(IntegratePass(s, gr, gp, dhp), damping)), pick, cur)

\* update() up to the clamp
BeforeClamp(s, gr, damping, pick, cur, gp, dhp) ==
    WallPass(PickPass(DampPass(IntegratePass(s, gr, gp, dhp), damping), pick, cur))

\* update()
update(s, gr, damping, pick, cur, gp, dhp) ==
    ClampPass(BeforeClamp(s, gr, damping, pick, cur, gp, dhp))

-----------------------------------------------------------------------------
(* History, kept beside the program's state *)

NoHist ==
    [at |-> {}, moving |-> {}, snapped |-> {}, clamped |-> {},
     pre |-> [x |-> <<>>, v |-> <<>>]]

NoTally == [nsub |-> 0, np |-> 0, nr |-> 0, seen |-> {}]

-----------------------------------------------------------------------------
(* The state after `meshing(); initialize(); initialize_springs()` *)

Init ==
    /\ mesh = meshing(N_x, N_y)
    /\ paused = TRUE
    /\ damping_toggle = 0
    /\ curser = Zero2
    /\ picking = 0
    /\ YoungsModulus = initialize.YoungsModulus
    /\ x = initialize.x
    /\ v = initialize.v
    /\ grad = [n \in Nodes |-> Zero2]
    /\ spring_length = initialize_springs(meshing(N_x, N_y).edges, initialize.x)
    /\ pc = "top"
    /\ left = 0
    /\ nev = 0
    /\ frame = 0
    /\ last = "init"
    /\ hist = NoHist
    /\ tally = NoTally
    /\ snap = [x |-> initialize.x, v |-> initialize.v, Y |-> initialize.YoungsModulus]

-----------------------------------------------------------------------------
(* The main loop *)

\* `while gui.running:` and `picking[None]=0`
BeginFrame ==
    /\ pc = "top"
    /\ frame < MaxFrames
    /\ picking' = 0
    /\ pc' = "events"
    /\ last' = "frame"
    /\ hist' = NoHist
    /\ tally' = NoTally
    /\ snap' = [x |-> x, v |-> v, Y |-> YoungsModulus]
    /\ UNCHANGED <<mesh, paused, damping_toggle, curser, YoungsModulus, x, v, grad,
                   spring_length, left, nev, frame>>

\* the loop `for e in gui.get_events(ti.GUI.PRESS)` has one more event
HasEvent == pc = "events" /\ nev < MaxEvents

\* ESCAPE or EXIT: exit()
KeyEscape ==
    /\ HasEvent
    /\ pc' = "exit"
    /\ nev' = nev + 1
    /\ last' = "escape"
    /\ hist' = NoHist
    /\ UNCHANGED <<mesh, paused, damping_toggle, curser, picking, YoungsModulus, x, v,
                   grad, spring_length, left, frame, tally, snap>>

\* mutant: 'r' also re-runs initialize_springs(), on the positions it finds
KeyR_relax ==
    /\ HasEvent
    /\ spring_length' = initialize_springs(mesh.edges, x)
    /\ YoungsModulus' = initialize.YoungsModulus
    /\ x' = initialize.x
    /\ v' = initialize.v
    /\ nev' = nev + 1
    /\ last' = "r"
    /\ hist' = NoHist
    /\ tally' = [tally EXCEPT !.nr = @ + 1]
    /\ UNCHANGED <<mesh, paused, damping_toggle, curser, picking, grad,
                   pc, left, frame, snap>>

\* mutant: the `paused = True` of initialize() reaches the global
KeyR_pauses ==
    /\ HasEvent
    /\ paused' = TRUE
    /\ YoungsModulus' = initialize.YoungsModulus
    /\ x' = initialize.x
    /\ v' = initialize.v
    /\ nev' = nev + 1
    /\ last' = "r"
    /\ hist' = NoHist
    /\ tally' = [tally EXCEPT !.nr = @ + 1]
    /\ UNCHANGED <<mesh, damping_toggle, curser, picking, grad,
                   spring_length, pc, left, frame, snap>>

\* 'r': initialize()
KeyR ==
    /\ HasEvent
    /\ YoungsModulus' = initialize.YoungsModulus
    /\ x' = initialize.x
    /\ v' = initialize.v
    /\ nev' = nev + 1
    /\ last' = "r"
    /\ hist' = NoHist
    /\ tally' = [tally EXCEPT !.nr = @ + 1]
    /\ UNCHANGED <<mesh, paused, damping_toggle, curser, picking, grad,
                   spring_length, pc, left, frame, snap>>

\* '0': YoungsModulus[None] *= 1.1
Key0 ==
    /\ HasEvent
    /\ YoungsModulus' = FDiv(FMul(YoungsModulus, 11), 10)
    /\ nev' = nev + 1
    /\ last' = "0"
    /\ hist' = NoHist
    /\ UNCHANGED <<mesh, paused, damping_toggle, curser, picking, x, v, grad,
                   spring_length, pc, left, frame, tally, snap>>

\* '9': YoungsModulus[None] /= 1.1
Key9 ==
    /\ HasEvent
    /\ YoungsModulus' = FDiv(FMul(YoungsModulus, 10), 11)
    /\ nev' = nev + 1
    /\ last' = "9"
    /\ hist' = NoHist
    /\ UNCHANGED <<mesh, paused, damping_toggle, curser, picking, x, v, grad,
                   spring_length, pc, left, frame, tally, snap>>

\* SPACE: paused = not paused
KeySpace ==
    /\ HasEvent
    /\ paused' = ~paused
    /\ nev' = nev + 1
    /\ last' = "space"
    /\ hist' = NoHist
    /\ UNCHANGED <<mesh, damping_toggle, curser, picking, YoungsModulus, x, v, grad,
                   spring_length, pc, left, frame, tally, snap>>

\* 'd': damping_toggle[None] = not damping_toggle[None]
KeyD ==
    /\ HasEvent
    /\ damping_toggle' = (IF damping_toggle # 0 THEN 0 ELSE 1)
    /\ nev' = nev + 1
    /\ last' = "d"
    /\ hist' = NoHist
    /\ UNCHANGED <<mesh, paused, curser, picking, YoungsModulus, x, v, grad,
                   spring_length, pc, left, frame, tally, snap>>

\* mutant: the first iteration of the 'p' loop goes straight to update()
KeyP_skipsGradient ==
    /\ HasEvent
    /\ pc' = (IF substepping > 0 THEN "p_update" ELSE "events")
    /\ left' = substepping
    /\ nev' = nev + 1
    /\ last' = "p"
    /\ hist' = NoHist
    /\ tally' = [tally EXCEPT !.np = @ + 1]
    /\ UNCHANGED <<mesh, paused, damping_toggle, curser, picking, YoungsModulus, x, v,
                   grad, spring_length, frame, snap>>

\* 'p': enters `for _ in range(substepping)`
KeyP ==
    /\ HasEvent
    /\ pc' = (IF substepping > 0 THEN "p_gradient" ELSE "events")
    /\ left' = substepping
    /\ nev' = nev + 1
    /\ last' = "p"
    /\ hist' = NoHist
    /\ tally' = [tally EXCEPT !.np = @ + 1]
    /\ UNCHANGED <<mesh, paused, damping_toggle, curser, picking, YoungsModulus, x, v,
                   grad, spring_length, frame, snap>>

\* where the loop body's update() follows compute_gradient()
UpdateAfter(at) == IF at = "p_gradient" THEN "p_update" ELSE "update"

\* where control goes after update(): the next iteration, or past the loop
AfterUpdate(at, remaining) ==
    IF remaining > 0 THEN (IF at = "p_update" THEN "p_gradient" ELSE "gradient")
    ELSE (IF at = "p_update" THEN "events" ELSE "render")

\* compute_gradient() of a loop iteration
ComputeGradient ==
    /\ pc \in {"p_gradient", "gradient"}
    /\ grad' = compute_gradient(mesh.edges, x, spring_length, YoungsModulus)
    /\ pc' = UpdateAfter(pc)
    /\ last' = "compute_gradient"
    /\ hist' = NoHist
    /\ UNCHANGED <<mesh, paused, damping_toggle, curser, picking, YoungsModulus, x, v,
                   spring_length, left, nev, frame, tally, snap>>

\* every velocity component is NaN or within the explored range
Explored(s) ==
    \A n \in DOMAIN s.v : \A c \in 1..2 : IsNaN(s.v[n][c]) \/ Abs(s.v[n][c]) <= MaxSpeed

\* update() of a loop iteration
Update ==
    /\ pc \in {"p_update", "update"}
    /\ LET s == [x |-> x, v |-> v]
           pre == BeforeClamp(s, grad, damping_toggle, picking, curser, g, dh)
           post == update(s, grad, damping_toggle, picking, curser, g, dh)
       IN /\ Explored(post)
          /\ x' = post.x
          /\ v' = post.v
          /\ hist' = [at |-> {n \in Nodes : picking # 0 /\ x[n] = curser},
                      moving |-> {n \in Nodes : v[n] # Zero2},
                      snapped |-> Near(DampPass(IntegratePass(s, grad, g, dh),
                                                damping_toggle), picking, curser),
                      clamped |-> Left(pre),
                      pre |-> pre]
    /\ left' = left - 1
    /\ pc' = AfterUpdate(pc, left - 1)
    /\ last' = "update"
    /\ tally' = [tally EXCEPT !.nsub = @ + 1,
                              !.seen = @ \cup {<<pc, picking, curser>>}]
    /\ UNCHANGED <<mesh, paused, damping_toggle, curser, picking, YoungsModulus, grad,
                   spring_length, nev, frame, snap>>

\* the event loop ends
EventsDone ==
    /\ pc = "events"
    /\ pc' = "pointer"
    /\ last' = "events_done"
    /\ hist' = NoHist
    /\ UNCHANGED <<mesh, paused, damping_toggle, curser, picking, YoungsModulus, x, v,
                   grad, spring_length, left, nev, frame, tally, snap>>

\* mutant: the integration loop does not look at `paused`
AfterPointer_ignoresPause == IF substepping > 0 THEN "gradient" ELSE "render"

\* `if not paused:` enters the integration loop, or falls through to render
AfterPointer == IF ~paused /\ substepping > 0 THEN "gradient" ELSE "render"

\* the pointer is held on a node, or one unit left of and above it
MouseOffsets == {<<0 - 1, 1>>, <<0, 0>>}

\* where gui.get_cursor_pos() can be: about a node, inside the window
MousePoints ==
    {q \in UNION {{<<x[n][1] + d[1], x[n][2] + d[2]>> : d \in MouseOffsets} :
                  n \in {n \in Nodes : ~IsNaN(x[n][1]) /\ ~IsNaN(x[n][2])}} :
        q[1] >= 0 /\ q[2] >= 0}

\* gui.is_pressed(LMB): curser[None] = gui.get_cursor_pos(); picking[None] = 1
PointerHeld ==
    /\ pc = "pointer"
    /\ \E mouse \in MousePoints : curser' = mouse
    /\ picking' = 1
    /\ pc' = AfterPointer
    /\ left' = (IF paused THEN left ELSE substepping)
    /\ last' = "pointer_held"
    /\ hist' = NoHist
    /\ UNCHANGED <<mesh, paused, damping_toggle, YoungsModulus, x, v, grad,
                   spring_length, nev, frame, tally, snap>>

\* the pointer is not held
PointerIdle ==
    /\ pc = "pointer"
    /\ pc' = AfterPointer
    /\ left' = (IF paused THEN left ELSE substepping)
    /\ last' = "pointer_idle"
    /\ hist' = NoHist
    /\ UNCHANGED <<mesh, paused, damping_toggle, curser, picking, YoungsModulus, x, v,
                   grad, spring_length, nev, frame, tally, snap>>

\* render and gui.show(): reads the state, ends the frame
Render ==
    /\ pc = "render"
    /\ pc' = "top"
    /\ frame' = frame + 1
    /\ last' = "render"
    /\ hist' = NoHist
    /\ UNCHANGED <<mesh, paused, damping_toggle, curser, picking, YoungsModulus, x, v,
                   grad, spring_length, left, nev, tally, snap>>

Next ==
    \/ BeginFrame
    \/ KeyEscape
    \/ KeyR
    \/ Key0
    \/ Key9
    \/ KeySpace
    \/ KeyD
    \/ KeyP
    \/ ComputeGradient
    \/ Update
    \/ EventsDone
    \/ PointerHeld
    \/ PointerIdle
    \/ Render

Spec == Init /\ [][Next]_vars

-----------------------------------------------------------------------------
(* meshing() alone, iteration by iteration, for every grid up to the bounds *)

InitMesh ==
    /\ mesh \in {MeshStart(nx, ny) : nx \in 2..MaxN_x, ny \in 2..MaxN_y}
    /\ paused = TRUE
    /\ damping_toggle = 0
    /\ curser = Zero2
    /\ picking = 0
    /\ YoungsModulus = 0
    /\ x = <<>>
    /\ v = <<>>
    /\ grad = <<>>
    /\ spring_length = <<>>
    /\ pc = "meshing"
    /\ left = 0
    /\ nev = 0
    /\ frame = 0
    /\ last = "start"
    /\ hist = NoHist
    /\ tally = NoTally
    /\ snap = [x |-> <<>>, v |-> <<>>, Y |-> 0]

MeshTriangles ==
    /\ pc = "meshing"
    /\ mesh.pc = "triangles"
    /\ mesh' = TriangleIteration(mesh)
    /\ UNCHANGED simvars

MeshHorizontal ==
    /\ pc = "meshing"
    /\ mesh.pc = "horizontal"
    /\ mesh' = HorizontalIteration(mesh)
    /\ UNCHANGED simvars

MeshVertical ==
    /\ pc = "meshing"
    /\ mesh.pc = "vertical"
    /\ mesh' = VerticalIteration(mesh)
    /\ UNCHANGED simvars

MeshDiagonal ==
    /\ pc = "meshing"
    /\ mesh.pc = "diagonal"
    /\ mesh' = DiagonalIteration(mesh)
    /\ UNCHANGED simvars

NextMesh ==
    \/ MeshTriangles
    \/ MeshHorizontal
    \/ MeshVertical
    \/ MeshDiagonal

SpecMesh == InitMesh /\ [][NextMesh]_vars

-----------------------------------------------------------------------------
(* Properties *)

\* the rest pose of node (i, j)
RestPose(i, j) == <<init_x + i * dx, init_y + j * dx>>

\* every node is at its rest pose
OnGrid(xs) ==
    \A i \in 0..(N_x - 1) : \A j \in 0..(N_y - 1) :
        xs[ij_2_index(N_y, i, j)] = RestPose(i, j)

\* every edge has its rest length
AllAtRest ==
    \A e \in DOMAIN mesh.edges :
        Norm(VSub(x[mesh.edges[e][1]], x[mesh.edges[e][2]])) = spring_length[e]

ZeroField == [n \in Nodes |-> Zero2]

\* stiffness values: none, the least, half, the initial, twice it, the current one
StiffnessValues == {0, 1, Youngs0 \div 2, Youngs0, 2 * Youngs0, YoungsModulus}

\* C1: after every update(), every column-0 node (0, j) is at
\* (init_x, init_y + j*dx) with velocity (0, 0), whatever ran before and also
\* when the pick pass of that update() snapped the node to the cursor.
C1_WallPinned ==
    last = "update" =>
        \A j \in 0..(N_y - 1) :
            /\ x[ij_2_index(N_y, 0, j)] = <<init_x, init_y + j * dx>>
            /\ v[ij_2_index(N_y, 0, j)] = <<0, 0>>

\* update() ran with picking on, its pick pass snapped a column-0 node to a
\* cursor that is not the node's rest pose, and stiffness or reset events came before
C1_Witness ==
    /\ last = "update"
    /\ nev > 0
    /\ \E n \in Wall : n \in hist.snapped /\ curser # x[n] /\ hist.pre.x[n] = x[n]

\* C2: after every update() no node has an x-coordinate below init_x; a node the
\* clamp caught has x = init_x and x-velocity 0, and its y-position and
\* y-velocity are those the earlier passes of that update() left.
C2_LeftClamp ==
    last = "update" =>
        \A n \in Nodes :
            /\ IsNaN(x[n][1]) \/ x[n][1] >= init_x
            /\ n \in hist.clamped =>
                  /\ x[n][1] = init_x
                  /\ v[n][1] = 0
                  /\ x[n][2] = hist.pre.x[n][2]
                  /\ v[n][2] = hist.pre.v[n][2]

\* update() clamped a node that the pick pass had put on a cursor left of init_x
C2_Witness ==
    /\ last = "update"
    /\ picking = 1
    /\ curser[1] < init_x
    /\ \E n \in hist.clamped : n \in hist.snapped /\ hist.pre.v[n][2] = v[n][2]

C4_ResetRestores ==
    last = "r" =>
        /\ OnGrid(x)
        /\ \A n \in Nodes : v[n] = <<0, 0>>
        /\ mesh = meshing(N_x, N_y)
        /\ spring_length = initialize_springs(meshing(N_x, N_y).edges, initialize.x)

\* 'r' ran in a frame that began with the mesh deformed
C4_Witness ==
    /\ last = "r"
    /\ ~OnGrid(snap.x)
    /\ \E n \in Nodes : snap.v[n] # Zero2

\* node pairs of the three kinds of edge
IsHorizontal(ms, pair) ==
    \E i \in 0..(ms.nx - 2) : \E j \in 0..(ms.ny - 1) :
        pair = <<i * ms.ny + j, (i + 1) * ms.ny + j>>

IsVertical(ms, pair) ==
    \E i \in 0..(ms.nx - 1) : \E j \in 0..(ms.ny - 2) :
        pair = <<i * ms.ny + j, i * ms.ny + j + 1>>

IsDiagonal(ms, pair) ==
    \E i \in 0..(ms.nx - 2) : \E j \in 0..(ms.ny - 2) :
        pair = <<(i + 1) * ms.ny + j, i * ms.ny + j + 1>>

\* C5: for 2 <= N_x, N_y, meshing() never writes outside a field nor twice to a
\* slot, and when it is done every one of the (N_x-1)*N_y + N_x*(N_y-1) +
\* (N_x-1)*(N_y-1) edge slots and 2*(N_x-1)*(N_y-1) triangle slots was written
\* once: horizontal edges first, then vertical, then one diagonal per cell, no
\* edge twice, each joining two distinct nodes of 0..N-1.
C5_Meshing ==
    LET nh == (mesh.nx - 1) * mesh.ny
        nv == mesh.nx * (mesh.ny - 1)
        nd == (mesh.nx - 1) * (mesh.ny - 1)
        nn == mesh.nx * mesh.ny
    IN /\ ~mesh.oob
       /\ \A e \in DOMAIN mesh.edges : mesh.ewrites[e] <= 1
       /\ \A t \in DOMAIN mesh.triangles : mesh.twrites[t] <= 1
       /\ mesh.pc = "done" =>
             /\ DOMAIN mesh.edges = 0..(nh + nv + nd - 1)
             /\ DOMAIN mesh.triangles = 0..(2 * nd - 1)
             /\ \A e \in DOMAIN mesh.edges : mesh.ewrites[e] = 1
             /\ \A t \in DOMAIN mesh.triangles : mesh.twrites[t] = 1
             /\ \A e \in 0..(nh - 1) : IsHorizontal(mesh, mesh.edges[e])
             /\ \A e \in nh..(nh + nv - 1) : IsVertical(mesh, mesh.edges[e])
             /\ \A e \in (nh + nv)..(nh + nv + nd - 1) : IsDiagonal(mesh, mesh.edges[e])
             /\ \A e \in DOMAIN mesh.edges :
                   /\ mesh.edges[e][1] # mesh.edges[e][2]
                   /\ mesh.edges[e][1] \in 0..(nn - 1)
                   /\ mesh.edges[e][2] \in 0..(nn - 1)
             /\ \A e, f \in DOMAIN mesh.edges : e # f => mesh.edges[e] # mesh.edges[f]
             /\ \A t \in DOMAIN mesh.triangles :
                   \A c \in 1..3 : mesh.triangles[t][c] \in 0..(nn - 1)

\* meshing() finished on a grid that is not square
C5_Witness == mesh.pc = "done" /\ mesh.nx = 3 /\ mesh.ny = 4

\* C6 as stated: a frame that ran substeps ran exactly `substepping` of them.
C6_ExactlySubstepping ==
    (pc = "render" /\ tally.nsub > 0) => tally.nsub = substepping

\* C6 as amended: each 'p' event and, when not paused, the integration block run
\* `substepping` substeps each, all of them before render; and every update()
\* runs on the gradient of the positions, rest lengths and stiffness it starts from.
C6_SubstepsPerBlock ==
    /\ pc = "render" =>
          /\ tally.nsub = substepping * (tally.np + (IF paused THEN 0 ELSE 1))
          /\ left = 0
    /\ pc \in {"p_update", "update"} =>
          grad = compute_gradient(mesh.edges, x, spring_length, YoungsModulus)

\* a frame reached render having run 'p' and the integration block
C6_Witness ==
    /\ pc = "render"
    /\ ~paused
    /\ tally.np = 1
    /\ tally.nsub = 2 * substepping
    /\ ~OnGrid(x)

\* C7: when the frame holds the pointer, every update() of the frame saw
\* picking = 1 and the frame's cursor position, those of the 'p' key included.
C7_UpdatesSeePick ==
    (pc = "render" /\ picking = 1) =>
        \A u \in tally.seen : u[2] = 1 /\ u[3] = curser

C9_ResetStiffnessOnly ==
    [][last' = "r" =>
          /\ YoungsModulus' = Youngs0
          /\ paused' = paused
          /\ damping_toggle' = damping_toggle]_vars

\* 'r' ran in a frame that began with another stiffness, and reset it
C9_Witness ==
    /\ last = "r"
    /\ snap.Y # Youngs0
    /\ YoungsModulus = Youngs0

\* C10: the simulation starts paused, and a frame that reaches render paused
\* with neither 'p' nor 'r' pressed has every position and velocity as the
\* frame found them.
C10_PausedFrameKeepsState ==
    /\ last = "init" => paused
    /\ (pc = "render" /\ paused /\ tally.np = 0 /\ tally.nr = 0) =>
          x = snap.x /\ v = snap.v

\* a paused frame held the pointer on a moving free node and left it alone
C10_Witness ==
    /\ pc = "render"
    /\ paused
    /\ tally.np = 0
    /\ tally.nr = 0
    /\ picking = 1
    /\ \E n \in Nodes \ Wall : curser = x[n] /\ v[n] # Zero2 /\ x[n] = snap.x[n]

====
